---- MODULE Spec2Model ----
(***************************************************************************)
(* Incremental newsletter ingestion: the Local Ledger                      *)
(* (incremental_email_handler.py), the Ingestion Coordinator               *)
(* (gmailextract.py main / process_message / construct_date_query) and the *)
(* Store Synchronizer (sync_mongodb.py, mongo_loader.py).                  *)
(*                                                                         *)
(* Time is counted in hours; a day has 24 of them.  A parsed date is a     *)
(* record [loc, off]: the local wall-clock hour and the UTC offset in      *)
(* hours, as datetime.isoformat() keeps them; the instant is loc - off.    *)
(***************************************************************************)
EXTENDS Integers, Sequences, FiniteSets, TLC

\* ---------------------------------------------------------------- bounds
NumIds == 5         \* message ids the mailbox can list
MaxBatchLen == 2    \* length of a batch handed to process_new_emails directly
MaxCalls == 2       \* direct process_new_emails calls explored
NumBatchIds == 3    \* ids that occur in directly passed batches
MaxPageLen == 4     \* messages per listed page
MaxPages == 2       \* pages the provider serves per run
MaxRuns == 2        \* ingestion runs explored
MaxSyncs == 2       \* sync_mongodb calls explored
BatchSize == 2      \* load_data batch_size argument (default 100, scaled)
MaxLoads == 2       \* load_data calls on the whole ledger file explored
MaxStarts == 2      \* invocations of the Background Runner explored
MaxSaves == 2       \* saves followed statement by statement
MaxBackoffCalls == 2  \* execute_with_backoff calls followed by attempt
MaxCount == 1       \* largest counter value a checkpoint file holds

\* ------------------------------------------------------ program constants
CUTOFF_DATE == 48           \* the cutoff instant: day 2, 00:00 UTC
MAX_OLD_MESSAGES == 5
max_retries == 5            \* GmailRateLimiter.max_retries
backoff_time == 1           \* GmailRateLimiter.backoff_time, seconds

\* ------------------------------------------------------------- messages
Ids == 1..NumIds

NoDate == [loc |-> -1, off |-> 0]      \* parsedDate is None

\* The mailbox: what get(id) returns is fixed per id (an id never changes).
\* Date header of message i as parse_date reads it; NoDate when the header
\* is missing or cannot be parsed.
MsgDate(i) ==
    CASE i % 6 = 1 -> [loc |-> 60, off |-> 0]     \* day 2 12:00 UTC
      [] i % 6 = 2 -> [loc |-> 30, off |-> 0]     \* day 1 06:00 UTC, pre-cutoff
      [] i % 6 = 3 -> NoDate
      [] i % 6 = 4 -> [loc |-> 70, off |-> 0]     \* day 2 22:00 UTC
      [] i % 6 = 5 -> [loc |-> 100, off |-> 0]    \* day 4 04:00 UTC
      [] OTHER     -> [loc |-> 40, off |-> -8]    \* day 1 16:00 -08:00: the cutoff instant

\* Whether the From header of message i contains a configured filter address.
SenderMatches(i) == i % 6 # 4

\* The record process_message builds (the fields the pipeline reads).
Msg(i) == [id |-> i, parsedDate |-> MsgDate(i)]

Instant(d) == d.loc - d.off
Day(h) == h \div 24

IdSet(s) == {s[k].id : k \in DOMAIN s}
UniqueIds(s) == \A j, k \in DOMAIN s : j # k => s[j].id # s[k].id

\* --------------------------------------------------------- Local Ledger
\* Order of two isoformat strings: the local time first, then the offset
\* text ("+hh:mm" sorts before "-hh:mm", each by its digits).
OffRank(o) == IF o >= 0 THEN o ELSE 100 - o
StrLess(a, b) ==
    \/ a.loc < b.loc
    \/ a.loc = b.loc /\ OffRank(a.off) < OffRank(b.off)

LoadRaises_never(exists, bad) == FALSE

\* load_existing_data: json.load, or reading the ids, of a file that does
\* not hold a list of messages raises, and the exception is re-raised; an
\* absent file is not read.
LoadRaises(exists, bad) == exists /\ bad

merge_emails_nodedup(existing, new) == existing \o new

\* merge_emails: existing, then every incoming message whose id is not an
\* id of existing (the lookup is built once, before the loop).
merge_emails(existing, new) ==
    existing \o SelectSeq(new, LAMBDA e : e.id \notin IdSet(existing))

\* sorted() compares the keys pairwise: a None key among two or more
\* messages raises TypeError.
SortRaises(s) == Len(s) >= 2 /\ \E k \in DOMAIN s : s[k].parsedDate = NoDate

\* sorted(key=parsedDate, reverse=True): stable, descending.
RECURSIVE InsertDesc(_, _)
InsertDesc(s, e) ==
    IF s = <<>> THEN <<e>>
    ELSE IF StrLess(Head(s).parsedDate, e.parsedDate)
         THEN <<e>> \o s
         ELSE <<Head(s)>> \o InsertDesc(Tail(s), e)

RECURSIVE SortedDesc(_)
SortedDesc(s) ==
    IF s = <<>> THEN <<>>
    ELSE InsertDesc(SortedDesc(SubSeq(s, 1, Len(s) - 1)), s[Len(s)])

SaveOrder_openFirst == <<"open", "backup", "sort", "write">>

\* save_merged_emails, statement by statement: backup_existing_file(),
\* sorted(), open(json_path, 'w'), json.dump().
SaveOrder == <<"backup", "sort", "open", "write">>

\* No save_merged_emails under way.
NoSave ==
    [state |-> "idle", step |-> 0, pending |-> <<>>, prior |-> <<>>,
     priorExists |-> FALSE, bk |-> "none", bkContent |-> <<>>,
     opened |-> FALSE]

\* get_statistics()['date_range']: none for an empty ledger, else the
\* string minimum and maximum of the parsedDate values that are present.
Dated(s) == {s[k].parsedDate : k \in DOMAIN s} \ {NoDate}
MinDate(D) == IF D = {} THEN NoDate
              ELSE CHOOSE d \in D : \A e \in D : e = d \/ StrLess(d, e)
MaxDate(D) == IF D = {} THEN NoDate
              ELSE CHOOSE d \in D : \A e \in D : e = d \/ StrLess(e, d)
get_statistics(s) ==
    [total_emails |-> Len(s),
     has_range    |-> s # <<>>,
     earliest     |-> MinDate(Dated(s)),
     latest       |-> MaxDate(Dated(s))]

\* ------------------------------------------------ Ingestion Coordinator
BeforeCutoff_never(d) == FALSE

\* process_message: msg_date < CUTOFF_DATE, compared as instants.
BeforeCutoff(d) == Instant(d) < CUTOFF_DATE

\* process_message(message): None when get_message or anything else in it
\* raises; the cutoff marker for a parsed date before the cutoff; None when
\* the sender matches no filter address; else the message record.
\* What the latest iteration of the message loop met: an id of the
\* known-ids set; a message whose fetch or normalisation raised; one whose
\* sender matches no filter; one dated before the cutoff; one it accepted.
Met(i, known, getOk) ==
    IF known THEN "known"
    ELSE IF ~getOk THEN "failed"
    ELSE IF MsgDate(i) # NoDate /\ BeforeCutoff(MsgDate(i)) THEN "cutoff"
    ELSE IF ~SenderMatches(i) THEN "discarded"
    ELSE "accepted"

process_message(i, getOk) ==
    IF ~getOk THEN "none"
    ELSE IF MsgDate(i) # NoDate /\ BeforeCutoff(MsgDate(i)) THEN "cutoff"
    ELSE IF ~SenderMatches(i) THEN "none"
    ELSE "success"

CutoffStop_late(n) == n > MAX_OLD_MESSAGES

\* consecutive_old_messages >= MAX_OLD_MESSAGES
CutoffStop(n) == n >= MAX_OLD_MESSAGES

ConsecutiveAfter_resetOnSkip(c, known, r) ==
    IF ~known /\ r = "cutoff" THEN c + 1 ELSE 0

\* consecutive_old_messages after an iteration: "continue" before it is
\* touched for a known id (601) and for no result (614); += 1 for the
\* cutoff marker (618); = 0 otherwise (625).
ConsecutiveAfter(c, known, r) ==
    IF known \/ r = "none" THEN c
    ELSE IF r = "cutoff" THEN c + 1
    ELSE 0

\* The logs["stats"] counter an iteration increments: "skipped" for a known
\* id (600) and for no result (612), none for the cutoff marker,
\* "successful" for an accepted message (639).  "errors" (652) is counted
\* in the handler of the iteration's try, which process_message, catching
\* its own exceptions, never reaches.
StatCounted(known, r) ==
    IF known \/ r = "none" THEN "skipped"
    ELSE IF r = "cutoff" THEN "none"
    ELSE "successful"

\* No iteration yet.
NoIteration == [met |-> "none", stat |-> "none"]

TokenAfterPageError_cleared(tok) == FALSE

\* page_token after the handler of the page's try (671-680): it is
\* assigned only at line 663, which a raising list_messages never reaches.
TokenAfterPageError(tok) == tok

AlreadyProcessed_never(m, ids) == FALSE

\* main: "if message['id'] in processed_ids": skip, fetch nothing.
AlreadyProcessed(m, ids) == m \in ids

AfterSave_always(raised) == "mongo"

\* main: an exception of process_new_emails leaves the inner try for the
\* handler of line 762; else the MongoDB import follows.
AfterSave(raised) == IF raised THEN "done" ELSE "mongo"

HasNewEmails_always(f) == TRUE

\* main: "if filtered_emails:" before merging and saving.
HasNewEmails(f) == f # <<>>

NoQuery == [dir |-> "none", after |-> -1, before |-> -1]

\* construct_date_query(cutoff_date, date_range): the direction taken and
\* the days written after "after:" and "before:" (-1: no such term).
construct_date_query(cutoff, st) ==
    IF st.has_range /\ st.latest # NoDate
    THEN IF cutoff < Instant(st.latest)
         THEN [dir |-> "backward", after |-> Day(cutoff),
               before |-> Day(st.latest.loc)]
         ELSE [dir |-> "forward", after |-> Day(st.latest.loc + 2),
               before |-> -1]
    ELSE [dir |-> "fresh", after |-> Day(cutoff), before |-> -1]

\* main, line 546: evaluating logs["stats"]["direction"] raises when the
\* ledger has messages but none with a parsedDate (earliest is None).
DirectionRaises(st) == st.has_range /\ st.earliest = NoDate

Direction(st) ==
    IF st.has_range /\ CUTOFF_DATE < Instant(st.earliest)
    THEN "backward" ELSE "forward"

\* ---------------------------------------------------- Store Synchronizer
\* The collection holds documents [id, at]: at tells which caller of
\* load_data ("run" or "sync") stamped _imported_at on it.  The unique index on id admits one per id.
StoreIds(st) == {d.id : d \in st}

MissingIds_all(ledgerIds, storeIds) == ledgerIds

\* sync_mongodb: missing_ids = json_ids - existing_ids
MissingIds(ledgerIds, storeIds) == ledgerIds \ storeIds

NumBatches_floor(n) == n \div BatchSize

\* load_data: every full batch, and the remaining emails as a final batch.
NumBatches(n) == (n + BatchSize - 1) \div BatchSize

BatchOf(docs, k) ==
    SubSeq(docs, (k - 1) * BatchSize + 1,
           IF k * BatchSize < Len(docs) THEN k * BatchSize ELSE Len(docs))

\* insert_many(batch, ordered=False): every document whose id the
\* collection does not hold yet is inserted, one per id.
insert_many(batch, st, at) ==
    st \cup {[id |-> i, at |-> at] : i \in IdSet(batch) \ StoreIds(st)}

ZeroStats ==
    [total_processed |-> 0, successful |-> 0, failed |-> 0,
     duplicates |-> 0, errors |-> 0]

DuplicatesOf_none(len, nInserted) == 0

\* _process_batch on a key conflict: stats['duplicates'] += len(batch) -
\* successful, successful being details['nInserted']; nothing on a full
\* insert.
DuplicatesOf(len, nInserted) == len - nInserted

AfterFault_abort(k, last) == last + 1

\* The batch load_data goes to after batch k met another fault:
\* _process_batch catches the exception and returns, the loop goes on.
AfterFault(k, last) == k + 1

BatchFailed_onConflict(outcome, conflicts) ==
    outcome = "fault" \/ conflicts > 0

\* _process_batch: an OperationFailure whose text holds "duplicate key
\* error" is not a failure of the batch; any other exception is.
BatchFailed(outcome, conflicts) == outcome = "fault"

\* _process_batch for batches k, k+1, ...: out[k] tells whether insert_many
\* went through (conflicts on id counted as duplicates) or raised another
\* fault (the whole batch counted as failed).
RECURSIVE ProcessBatches(_, _, _, _, _, _)
ProcessBatches(docs, k, out, st, at, stats) ==
    IF k > NumBatches(Len(docs)) THEN [store |-> st, stats |-> stats]
    ELSE LET b == BatchOf(docs, k)
             n == Cardinality(IdSet(b) \ StoreIds(st))
         IN IF ~BatchFailed(out[k], Len(b) - n)
            THEN ProcessBatches(docs, k + 1, out, insert_many(b, st, at), at,
                     [stats EXCEPT !.successful = @ + n,
                                   !.duplicates = @ + DuplicatesOf(Len(b), n)])
            ELSE ProcessBatches(docs, AfterFault(k, NumBatches(Len(docs))),
                     out, st, at,
                     [stats EXCEPT !.failed = @ + Len(b), !.errors = @ + 1])

\* load_data(docs): initialize_database, then the batches; a fault in
\* initialize_database is caught and the stats are returned as they stand.
load_data(docs, st, at, initOk, out) ==
    IF ~initOk THEN [store |-> st, stats |-> [ZeroStats EXCEPT !.errors = 1]]
    ELSE ProcessBatches(docs, 1, out, st, at,
                        [ZeroStats EXCEPT !.total_processed = Len(docs)])

\* Ids handed to insert_many by load_data(docs).
PassedIds(docs, initOk) ==
    IF initOk
    THEN UNION {IdSet(BatchOf(docs, k)) : k \in 1..NumBatches(Len(docs))}
    ELSE {}

BatchOutcomes(docs) == [1..NumBatches(Len(docs)) -> {"ok", "fault"}]

\* Batches on which insert_many raised something other than a key conflict.
NumFaults(out) == Cardinality({k \in DOMAIN out : out[k] = "fault"})

\* Ids of the documents of the batches that met another fault.
FailedIds(docs, initOk, out) ==
    IF initOk
    THEN UNION {IdSet(BatchOf(docs, k)) : k \in {j \in DOMAIN out : out[j] = "fault"}}
    ELSE {}

\* How a sync_mongodb call went: it connected; it read the collection's
\* statistics and ids; it called load_data.
NoSync == [reached |-> FALSE, read |-> FALSE, loaded |-> FALSE]

\* ------------------------------------------------- execute_with_backoff
\* wait_time = self.backoff_time * (2 ** retries)
wait_time_linear(retries) == backoff_time * (retries + 1)

wait_time(retries) == backoff_time * (2 ^ retries)

\* No call followed yet.  n counts the calls, slept the seconds all of
\* them waited; the other fields are the current call's: its retries
\* counter, the attempts made (calls of func), the waits in order.
NoCall == [state |-> "idle", n |-> 0, retries |-> 0, attempts |-> 0,
           waits |-> <<>>, slept |-> 0]

\* ----------------------------------------------------- Background Runner
\* MongoDBLoader.initialize_database(): it raises on a fault and has no
\* return statement otherwise, so its value is None.
initialize_database(initOk) == IF initOk THEN "None" ELSE "raise"

\* Python's "not v" for the values that occur here.
Falsy(v) == v \in {"None", "False"}

\* The counters load_checkpoint resets: _initial_count, _last_known_count,
\* _total_processed, _final_verification_count, state.total_processed.
CounterNames ==
    {"initial_count", "last_known_count", "total_processed",
     "final_verification_count", "state_total_processed"}

\* BackgroundProcessor.__init__: ProcessingState() and the counters at 0.
NewState ==
    [status |-> "initializing", last_email_date |-> "none",
     last_backup_time |-> "none", start_time |-> "none",
     count |-> [c \in CounterNames |-> 0]]

\* processing_checkpoint.json: absent, not a JSON object, or what
\* save_checkpoint wrote (its counters share one value, its timestamps one).
NoCheckpoint ==
    [kind |-> "absent", count |-> 0, status |-> "none", stamp |-> "none"]
BadCheckpoint ==
    [kind |-> "malformed", count |-> 0, status |-> "none", stamp |-> "none"]
Checkpoints ==
    {NoCheckpoint, BadCheckpoint}
      \cup [kind : {"saved"}, count : 0..MaxCount,
            status : {"processing", "error"}, stamp : {"none", "saved"}]

RestoredCounter_saved(saved) == saved

\* load_checkpoint: "Reset counters for new run", every one to 0.
RestoredCounter(saved) == 0

\* load_checkpoint(): with a readable checkpoint, status and the three
\* timestamps are taken from it and the counters are reset; an absent file
\* is not read, and what reading raises is caught.
load_checkpoint(cp, st) ==
    IF cp.kind # "saved" THEN st
    ELSE [status |-> cp.status, last_email_date |-> cp.stamp,
          last_backup_time |-> cp.stamp, start_time |-> cp.stamp,
          count |-> [c \in CounterNames |-> RestoredCounter(cp.count)]]

\* verify_processing(): False when the store cannot be reached or read,
\* when filtered_emails.json is absent or unreadable, when the two counts
\* differ or the two id sets differ; True otherwise.
verify_processing(storeOk, exists, bad, ledger, st) ==
    /\ storeOk
    /\ exists /\ ~bad
    /\ Len(ledger) = Cardinality(st)
    /\ IdSet(ledger) = StoreIds(st)

\* process_emails, lines 265-297: the status after the final verification.
FinalStatus(verified) ==
    IF verified THEN "completed" ELSE "completed_with_warnings"

VARIABLES
    fileExists,       \* filtered_emails.json exists
    file,             \* its content
    malformed,        \* the file exists but does not hold a JSON list
    save,             \* the save_merged_emails followed statement by statement
    saves,            \* how many were followed
    backups,          \* backup copies written by backup_existing_file
    existing_emails,  \* handler.existing_emails (existing_ids is its id set)
    calls,            \* direct process_new_emails calls made
    lastBatch,        \* argument of the latest process_new_emails
    lastMerged,       \* what the latest merge_emails returned
    saveOk,           \* the latest save_merged_emails returned normally
    given,            \* ids of the initial ledger and of every batch passed
    sameTwice,        \* the latest direct call repeated the batch before it
    pc,               \* where main() is
    runs,             \* runs started
    query,            \* the query constructed at run start
    direction,        \* logs["stats"]["direction"]
    processed_ids,
    filtered_emails,
    consecutive_old_messages,
    cutoff_reached,
    page_token,       \* a next-page token is held
    retries,          \* execute_with_backoff's counter when the latest list call ended
    pagesLeft,        \* non-empty pages the provider still serves in this run
    pos,              \* messages of the current page already iterated
    oldSeen,          \* ids listed to this run whose date is before the cutoff
    handed,           \* this run called process_new_emails
    startExists,      \* the ledger file existed when this run started
    startBackups,     \* backups when this run started
    prevEmpty,        \* the run before this one ended with nothing accepted
    logWritten,       \* this run wrote gmail_processing_logs.json
    relisted,         \* the latest loop iteration met an id this run had accepted
    store,            \* the documents of the collection
    loadStats,        \* what the latest load_data returned
    passed,           \* ids the latest sync or run handed to insert_many
    syncs,            \* sync_mongodb calls made
    loads,            \* load_data calls made on the whole ledger file
    faults,           \* batches of the latest load_data that met another fault
    failedIds,        \* ids of the documents of those batches
    lastSync,         \* how the latest sync_mongodb went; NoSync before any
    rpc,              \* where BackgroundProcessor.start() is
    running,          \* BackgroundProcessor.running
    shutdown,         \* a SIGINT/SIGTERM reached handle_shutdown
    connected,        \* process_emails connected to the store
    tasks,            \* GmailExtractor threads this invocation started
    finalBackup,      \* what cleanup's create_backup(force=True) did
    starts,           \* invocations of the Background Runner
    ckpt,             \* processing_checkpoint.json
    pstate,           \* BackgroundProcessor.state and the private counters
    dbReady,          \* process_emails got past initialize_database()
    backoff,          \* an execute_with_backoff call followed attempt by attempt
    iteration         \* the latest message-loop iteration and its log entry

ledgerVars == <<fileExists, file, malformed, backups, existing_emails>>
saveVars == <<save, saves>>
callVars == <<lastBatch, lastMerged, saveOk>>
apiVars == <<calls, given, sameTwice>>
loopVars == <<processed_ids, filtered_emails, consecutive_old_messages,
              cutoff_reached, page_token, retries, pagesLeft, pos, oldSeen>>
runVars == <<pc, runs, query, direction, loopVars, handed, startExists,
             startBackups, prevEmpty, logWritten, relisted>>
storeVars == <<store, loadStats, passed, faults, failedIds, syncs, loads,
               lastSync>>
bgVars == <<rpc, running, shutdown, connected, tasks, finalBackup, starts,
            ckpt, pstate, dbReady>>
unitVars == <<backoff, iteration>>
vars == <<ledgerVars, callVars, apiVars, runVars, storeVars, bgVars, saveVars,
          unitVars>>

\* Persisted ledgers a run can leave behind: accepted messages only,
\* written in the order save_merged_emails gives them.
InitLedgers ==
    {<<>>, <<Msg(1)>>, <<Msg(3)>>, <<Msg(6)>>, SortedDesc(<<Msg(1), Msg(5)>>)}

InitWith(ledgers) ==
    /\ file \in ledgers
    /\ save = NoSave
    /\ saves = 0
    /\ backups = 0
    /\ existing_emails = file
    /\ calls = 0
    /\ lastBatch = <<>>
    /\ lastMerged = <<>>
    /\ saveOk = FALSE
    /\ given = IdSet(file)
    /\ sameTwice = FALSE
    /\ pc = "idle"
    /\ runs = 0
    /\ query = NoQuery
    /\ direction = "none"
    /\ processed_ids = {}
    /\ filtered_emails = <<>>
    /\ consecutive_old_messages = 0
    /\ cutoff_reached = FALSE
    /\ page_token = FALSE
    /\ retries = 0
    /\ pagesLeft = 0
    /\ pos = 0
    /\ oldSeen = {}
    /\ handed = FALSE
    /\ startExists = (file # <<>>)
    /\ startBackups = 0
    /\ prevEmpty = FALSE
    /\ logWritten = FALSE
    /\ relisted = FALSE
    /\ loadStats = ZeroStats
    /\ passed = {}
    /\ syncs = 0
    /\ loads = 0
    /\ faults = 0
    /\ failedIds = {}
    /\ lastSync = NoSync
    /\ rpc = "off"
    /\ running = FALSE
    /\ shutdown = FALSE
    /\ connected = FALSE
    /\ tasks = 0
    /\ finalBackup = "none"
    /\ starts = 0
    /\ pstate = NewState
    /\ dbReady = FALSE
    /\ backoff = NoCall
    /\ iteration = NoIteration

Init ==
    /\ InitWith(InitLedgers)
    /\ fileExists = (file # <<>>)
    /\ malformed = FALSE
    /\ store = {}
    /\ ckpt = NoCheckpoint

\* What runs can leave in the collection: documents of ledger messages.
\* A ledger of three messages gives load_data more than one batch.
SyncLedgers == InitLedgers \cup {SortedDesc(<<Msg(1), Msg(5), Msg(6)>>)}

InitSync ==
    /\ InitWith(SyncLedgers)
    /\ fileExists = (file # <<>>)
    /\ malformed = FALSE
    /\ store \in SUBSET {[id |-> i, at |-> "run"] : i \in IdSet(file)}
    /\ ckpt = NoCheckpoint

\* IncrementalEmailHandler(): load_existing_data reads the file if present.
LoadHandler ==
    /\ ~LoadRaises(fileExists, malformed)
    /\ existing_emails' = IF fileExists THEN file ELSE <<>>
    /\ UNCHANGED <<fileExists, file, malformed, backups, callVars, apiVars,
                   runVars, storeVars>>
    /\ UNCHANGED <<bgVars, saveVars, unitVars>>

\* process_new_emails(new): merge, then save_merged_emails: back up the
\* existing file, sort, overwrite.  The handler's own fields are not touched.
ProcessEffect(new) ==
    LET merged == merge_emails(existing_emails, new) IN
    /\ lastBatch' = new
    /\ lastMerged' = merged
    /\ backups' = IF fileExists THEN backups + 1 ELSE backups
    /\ saveOk' = ~SortRaises(merged)
    /\ IF SortRaises(merged)
       THEN UNCHANGED <<fileExists, file>>
       ELSE fileExists' = TRUE /\ file' = SortedDesc(merged)
    /\ UNCHANGED <<existing_emails, malformed>>

RECURSIVE SeqsUpTo(_, _)
SeqsUpTo(S, n) ==
    IF n = 0 THEN {<<>>}
    ELSE LET shorter == SeqsUpTo(S, n - 1) IN
         shorter \cup {Append(s, x) : s \in shorter, x \in S}

Batches == SeqsUpTo({Msg(i) : i \in 1..NumBatchIds}, MaxBatchLen)

ProcessNewEmails ==
    /\ calls < MaxCalls
    /\ \E new \in Batches :
        /\ ProcessEffect(new)
        /\ calls' = calls + 1
        /\ given' = given \cup IdSet(new)
        /\ sameTwice' = (calls >= 1 /\ new = lastBatch)
    /\ UNCHANGED <<runVars, storeVars>>
    /\ UNCHANGED <<bgVars, saveVars, unitVars>>

NextLedger == LoadHandler \/ ProcessNewEmails

\* A process constructs the handler from the file, merges a batch and
\* enters save_merged_emails.
BeginSave ==
    /\ save.state # "running"
    /\ saves < MaxSaves
    /\ ~LoadRaises(fileExists, malformed)
    /\ saves' = saves + 1
    /\ \E new \in Batches :
         LET loaded == IF fileExists THEN file ELSE <<>> IN
         /\ existing_emails' = loaded
         /\ save' = [state |-> "running", step |-> 1,
                     pending |-> merge_emails(loaded, new),
                     prior |-> loaded, priorExists |-> fileExists,
                     bk |-> "none", bkContent |-> <<>>, opened |-> FALSE]
    /\ UNCHANGED <<fileExists, file, malformed, backups>>
    /\ UNCHANGED <<callVars, apiVars, runVars, storeVars, bgVars, unitVars>>

\* The next statement of save_merged_emails.
SaveStep ==
    /\ save.state = "running"
    /\ LET op == SaveOrder[save.step]
           nxt == [save EXCEPT !.step = @ + 1]
       IN CASE op = "backup" ->
                 \* the copy is read with json.load and written whole,
                 \* or backup_existing_file raises
                 IF ~fileExists
                 THEN save' = nxt /\ UNCHANGED <<fileExists, file, malformed, backups>>
                 ELSE \E ok \in BOOLEAN :
                        /\ IF ok /\ ~malformed
                           THEN /\ save' = [nxt EXCEPT !.bk = "complete",
                                                       !.bkContent = file]
                                /\ backups' = backups + 1
                           ELSE /\ save' = [save EXCEPT !.state = "raised",
                                                        !.bk = "failed"]
                                /\ UNCHANGED backups
                        /\ UNCHANGED <<fileExists, file, malformed>>
            [] op = "sort" ->
                 /\ save' = IF SortRaises(save.pending)
                            THEN [save EXCEPT !.state = "raised"]
                            ELSE [nxt EXCEPT !.pending = SortedDesc(@)]
                 /\ UNCHANGED <<fileExists, file, malformed, backups>>
            [] op = "open" ->
                 \* open(..., 'w') truncates: no JSON in the file yet
                 /\ save' = [nxt EXCEPT !.opened = TRUE]
                 /\ fileExists' = TRUE /\ file' = <<>> /\ malformed' = TRUE
                 /\ UNCHANGED backups
            [] op = "write" ->
                 /\ save' = [save EXCEPT !.state = "saved"]
                 /\ fileExists' = TRUE /\ file' = save.pending
                 /\ malformed' = FALSE
                 /\ UNCHANGED backups
    /\ UNCHANGED <<existing_emails, saves>>
    /\ UNCHANGED <<callVars, apiVars, runVars, storeVars, bgVars, unitVars>>

\* The process is killed between two statements of the save.
KillSave ==
    /\ save.state = "running"
    /\ save' = [save EXCEPT !.state = "killed"]
    /\ UNCHANGED <<ledgerVars, saves>>
    /\ UNCHANGED <<callVars, apiVars, runVars, storeVars, bgVars, unitVars>>

NextSave == BeginSave \/ SaveStep \/ KillSave

\* save_merged_emails statement by statement, with a kill at any point.
SpecSave == Init /\ [][NextSave]_vars

SpecLedger == Init /\ [][NextLedger]_vars

\* ------------------------------------------------------ one run: main()
Terminal == {"idle", "done", "error", "crashed"}

\* Lines 513-581: construct the handler, read the statistics, initialise
\* the tracking variables and the logs, obtain credentials, build the query.
StartRun ==
    /\ pc \in Terminal
    /\ runs < MaxRuns
    /\ runs' = runs + 1
    /\ prevEmpty' = (pc = "done" /\ filtered_emails = <<>>)
    /\ startExists' = fileExists
    /\ startBackups' = backups
    /\ handed' = FALSE
    /\ LET raised == LoadRaises(fileExists, malformed)
           loaded == IF fileExists /\ ~raised THEN file ELSE <<>>
           st == get_statistics(loaded)
       IN /\ existing_emails' = loaded
          /\ processed_ids' = IdSet(loaded)
          /\ \E authOk \in BOOLEAN :
               IF raised \/ DirectionRaises(st)
               THEN pc' = "crashed" /\ direction' = "none" /\ query' = NoQuery
               ELSE /\ direction' = Direction(st)
                    /\ IF authOk
                       THEN /\ pc' = "fetch"
                            /\ query' = construct_date_query(CUTOFF_DATE, st)
                       ELSE pc' = "error" /\ query' = NoQuery
    /\ filtered_emails' = <<>>
    /\ consecutive_old_messages' = 0
    /\ cutoff_reached' = FALSE
    /\ page_token' = FALSE
    /\ retries' = 0
    /\ pagesLeft' = MaxPages
    /\ pos' = 0
    /\ oldSeen' = {}
    /\ lastBatch' = <<>> /\ lastMerged' = <<>> /\ saveOk' = FALSE
    /\ loadStats' = ZeroStats /\ passed' = {} /\ faults' = 0
    /\ failedIds' = {}
    /\ logWritten' = (pc' = "error")
    /\ relisted' = FALSE
    /\ UNCHANGED <<fileExists, file, malformed, backups, apiVars, store,
                   syncs, loads, lastSync>>
    /\ UNCHANGED <<bgVars, saveVars, unitVars>>

\* list_messages through execute_with_backoff, the whole call: it returns
\* a page after fewer than max_retries rate-limited attempts, or raises.
ListMessages ==
    /\ pc = "fetch"
    /\ \/ \* a page with messages
          /\ pagesLeft > 0
          /\ pagesLeft' = pagesLeft - 1
          /\ pc' = "page" /\ pos' = 0 /\ retries' = 0
       \/ \* a page without messages: "No more messages found", break
          /\ pc' = "merge" /\ retries' = 0
          /\ UNCHANGED <<pagesLeft, pos>>
       \/ \* RateLimitException on every attempt: give up at max_retries
          /\ retries' = max_retries
          /\ pc' = "page_error"
          /\ UNCHANGED <<pagesLeft, pos>>
       \/ \* any other exception is re-raised at once
          /\ pc' = "page_error" /\ retries' = 0
          /\ UNCHANGED <<pagesLeft, pos>>
    /\ UNCHANGED <<processed_ids, filtered_emails, consecutive_old_messages,
                   cutoff_reached, page_token, oldSeen>>
    /\ relisted' = FALSE
    /\ UNCHANGED <<runs, query, direction, handed, startExists, startBackups,
                   prevEmpty, logWritten, ledgerVars, callVars, apiVars,
                   storeVars>>
    /\ UNCHANGED <<bgVars, saveVars, unitVars>>

\* Lines 671-680: the page's exception is logged, sleep(1), continue; the
\* page token is as it was.
PageErrorRetry ==
    /\ pc = "page_error"
    /\ pc' = "fetch"
    /\ retries' = 0
    /\ page_token' = TokenAfterPageError(page_token)
    /\ UNCHANGED <<processed_ids, filtered_emails, consecutive_old_messages,
                   cutoff_reached, pagesLeft, pos, oldSeen>>
    /\ relisted' = FALSE
    /\ UNCHANGED <<runs, query, direction, handed, startExists, startBackups,
                   prevEmpty, logWritten, ledgerVars, callVars, apiVars,
                   storeVars>>
    /\ UNCHANGED <<bgVars, saveVars, unitVars>>

\* Lines 595-656: one iteration of "for message in messages" on message
\* m, as it changes what main() goes on to read.
Iterate(m, getOk) ==
    LET r == process_message(m, getOk)
        known == AlreadyProcessed(m, processed_ids)
        c == ConsecutiveAfter(consecutive_old_messages, known, r)
    IN /\ oldSeen' = IF MsgDate(m) # NoDate /\ Instant(MsgDate(m)) < CUTOFF_DATE
                     THEN oldSeen \cup {m} ELSE oldSeen
       /\ relisted' = (m \in IdSet(filtered_emails))
       /\ consecutive_old_messages' = c
       /\ IF known \/ r = "none"
          THEN UNCHANGED <<processed_ids, filtered_emails, cutoff_reached, pc>>
          ELSE IF r = "cutoff"
          THEN /\ cutoff_reached' = CutoffStop(c)
               /\ pc' = IF CutoffStop(c) THEN "merge" ELSE "page"
               /\ UNCHANGED <<processed_ids, filtered_emails>>
          ELSE /\ filtered_emails' = Append(filtered_emails, Msg(m))
               /\ processed_ids' = processed_ids \cup {m}
               /\ UNCHANGED <<cutoff_reached, pc>>

\* The loop takes the page's messages in order and never looks ahead, so
\* the page is revealed one message at a time.
ProcessMessage ==
    /\ pc = "page"
    /\ pos < MaxPageLen
    /\ pos' = pos + 1
    /\ \E m \in Ids :
       \E getOk \in IF AlreadyProcessed(m, processed_ids)
                    THEN {TRUE} ELSE BOOLEAN :  \* no get for a known id
         Iterate(m, getOk)
    /\ UNCHANGED <<page_token, retries, pagesLeft>>
    /\ UNCHANGED <<runs, query, direction, handed, startExists, startBackups,
                   prevEmpty, logWritten, ledgerVars, callVars, apiVars,
                   storeVars>>
    /\ UNCHANGED <<bgVars, saveVars, unitVars>>

\* The same iteration with what it writes to logs["stats"].
ProcessMessageLogged ==
    /\ pc = "page"
    /\ pos < MaxPageLen
    /\ pos' = pos + 1
    /\ \E m \in Ids :
       \E getOk \in IF AlreadyProcessed(m, processed_ids)
                    THEN {TRUE} ELSE BOOLEAN :
         /\ Iterate(m, getOk)
         /\ iteration' =
              [met |-> Met(m, AlreadyProcessed(m, processed_ids), getOk),
               stat |-> StatCounted(AlreadyProcessed(m, processed_ids),
                                    process_message(m, getOk))]
    /\ UNCHANGED <<page_token, retries, pagesLeft>>
    /\ UNCHANGED <<runs, query, direction, handed, startExists, startBackups,
                   prevEmpty, logWritten, ledgerVars, callVars, apiVars,
                   storeVars>>
    /\ UNCHANGED <<bgVars, saveVars, backoff>>

\* Lines 658-669: the page is exhausted; take the next-page token, stop
\* when there is none.
EndPage ==
    /\ pc = "page"
    /\ pos >= 1
    /\ \E tok \in BOOLEAN :
         /\ page_token' = tok
         /\ pc' = IF tok THEN "fetch" ELSE "merge"
    /\ retries' = 0
    /\ UNCHANGED <<processed_ids, filtered_emails, consecutive_old_messages,
                   cutoff_reached, pagesLeft, pos, oldSeen>>
    /\ relisted' = FALSE
    /\ UNCHANGED <<runs, query, direction, handed, startExists, startBackups,
                   prevEmpty, logWritten, ledgerVars, callVars, apiVars,
                   storeVars>>
    /\ UNCHANGED <<bgVars, saveVars, unitVars>>

\* Lines 686-695 and 737-772: merge and save when anything was accepted.
\* A save that raises is logged as save_error and the run ends; the log
\* file is written whenever the run ends here.
MergeAndSave ==
    /\ pc = "merge"
    /\ IF HasNewEmails(filtered_emails)
       THEN /\ ProcessEffect(filtered_emails)
            /\ handed' = TRUE
            /\ pc' = AfterSave(SortRaises(merge_emails(existing_emails,
                                                       filtered_emails)))
       ELSE /\ pc' = "done"
            /\ UNCHANGED <<ledgerVars, callVars, handed>>
    /\ logWritten' = (pc' = "done")
    /\ relisted' = FALSE
    /\ UNCHANGED <<runs, query, direction, loopVars, startExists,
                   startBackups, prevEmpty, apiVars>>
    /\ UNCHANGED storeVars
    /\ UNCHANGED <<bgVars, saveVars, unitVars>>

\* Lines 697-772: connect, read the collection statistics, load_data of
\* the run's batch.  No connection, or statistics that cannot be read,
\* leave the collection as it is.
MongoLoad ==
    /\ pc = "mongo"
    /\ pc' = "done"
    /\ \E fault \in {"none", "connect", "stats", "init"} :
         IF fault \in {"connect", "stats"}
         THEN UNCHANGED <<store, loadStats, passed, faults, failedIds>>
         ELSE \E out \in BatchOutcomes(filtered_emails) :
                LET r == load_data(filtered_emails, store, "run",
                                   fault # "init", out)
                IN /\ store' = r.store
                   /\ loadStats' = r.stats
                   /\ passed' = PassedIds(filtered_emails, fault # "init")
                   /\ faults' = IF fault = "init" THEN 0 ELSE NumFaults(out)
                   /\ failedIds' = FailedIds(filtered_emails,
                                             fault # "init", out)
    /\ logWritten' = TRUE
    /\ UNCHANGED <<runs, query, direction, loopVars, handed, startExists,
                   startBackups, prevEmpty, relisted, ledgerVars, callVars,
                   apiVars>>
    /\ UNCHANGED <<syncs, loads, lastSync>>
    /\ UNCHANGED <<bgVars, saveVars, unitVars>>

\* sync_mongodb(): read the ledger file, connect, read the collection's
\* statistics and ids, load_data of the documents whose id is missing.
\* Every fault is logged and ends the call.
Sync ==
    /\ syncs < MaxSyncs
    /\ syncs' = syncs + 1
    /\ \E fault \in {"none", "connect", "stats", "find", "init"} :
         LET missing == MissingIds(IdSet(file), StoreIds(store))
             missing_docs == SelectSeq(file, LAMBDA e : e.id \in missing)
         IN IF ~fileExists \/ malformed \/ fault = "connect"
            THEN /\ lastSync' = NoSync
                 /\ passed' = {} /\ loadStats' = ZeroStats /\ faults' = 0
                 /\ failedIds' = {}
                 /\ UNCHANGED store
            ELSE IF fault \in {"stats", "find"}
            THEN /\ lastSync' = [reached |-> TRUE, read |-> FALSE,
                                 loaded |-> FALSE]
                 /\ passed' = {} /\ loadStats' = ZeroStats /\ faults' = 0
                 /\ failedIds' = {}
                 /\ UNCHANGED store
            ELSE IF missing = {}
            THEN /\ lastSync' = [reached |-> TRUE, read |-> TRUE,
                                 loaded |-> FALSE]
                 /\ passed' = {} /\ loadStats' = ZeroStats /\ faults' = 0
                 /\ failedIds' = {}
                 /\ UNCHANGED store
            ELSE \E out \in BatchOutcomes(missing_docs) :
                   LET r == load_data(missing_docs, store, "sync",
                                      fault # "init", out)
                   IN /\ store' = r.store
                      /\ loadStats' = r.stats
                      /\ passed' = PassedIds(missing_docs, fault # "init")
                      /\ faults' = IF fault = "init" THEN 0
                                    ELSE NumFaults(out)
                      /\ failedIds' = FailedIds(missing_docs,
                                                fault # "init", out)
                      /\ lastSync' = [reached |-> TRUE, read |-> TRUE,
                                      loaded |-> TRUE]
    /\ UNCHANGED <<ledgerVars, callVars, apiVars, runVars, loads>>
    /\ UNCHANGED <<bgVars, saveVars, unitVars>>

\* mongo_loader as a script: connect, load_emails('filtered_emails.json'),
\* which is load_data of every document of the ledger file.  A file that
\* cannot be read and a fault of initialize_database are caught inside
\* load_data, which returns its stats in every case.
LoadFile ==
    /\ loads < MaxLoads
    /\ loads' = loads + 1
    /\ \E fault \in {"none", "connect", "init"} :
         IF fault = "connect"
         THEN /\ loadStats' = ZeroStats
              /\ passed' = {} /\ faults' = 0
              /\ failedIds' = {}
              /\ UNCHANGED store
         ELSE IF ~fileExists \/ malformed
         THEN /\ loadStats' = [ZeroStats EXCEPT !.errors = 1]
              /\ passed' = {} /\ faults' = 0
              /\ failedIds' = {}
              /\ UNCHANGED store
         ELSE \E out \in BatchOutcomes(file) :
                LET r == load_data(file, store, "load", fault # "init", out)
                IN /\ store' = r.store
                   /\ loadStats' = r.stats
                   /\ passed' = PassedIds(file, fault # "init")
                   /\ faults' = IF fault = "init" THEN 0 ELSE NumFaults(out)
                   /\ failedIds' = FailedIds(file, fault # "init", out)
    /\ UNCHANGED <<ledgerVars, callVars, apiVars, runVars, syncs, lastSync>>
    /\ UNCHANGED <<bgVars, saveVars, unitVars>>

\* main(): a BackgroundProcessor is constructed; start() up to
\* processing_thread.start(): the flag, the signal handlers,
\* load_checkpoint(), the EmailProcessor thread.
RunnerStart ==
    /\ rpc \in {"off", "exited"}
    /\ starts < MaxStarts
    /\ starts' = starts + 1
    /\ rpc' = "processing"
    /\ running' = TRUE
    /\ shutdown' = FALSE
    /\ connected' = FALSE
    /\ dbReady' = FALSE
    /\ tasks' = 0
    /\ finalBackup' = "none"
    /\ pstate' = load_checkpoint(ckpt, NewState)
    /\ UNCHANGED ckpt
    /\ UNCHANGED <<ledgerVars, callVars, apiVars, runVars, storeVars>>
    /\ UNCHANGED <<saveVars, unitVars>>

\* process_emails() in the EmailProcessor thread, to its end: connect,
\* "if not mongo_loader.initialize_database(): raise", and only then one
\* GmailExtractor thread, watched while running and joined, and the final
\* verification that sets the status.  Every exception sets the status to
\* "error" and ends the thread; start() is waiting in join().
ProcessEmails ==
    /\ rpc = "processing"
    /\ rpc' = "joined"
    /\ \E connectOk, initOk, verifyOk \in BOOLEAN :
         LET went == connectOk /\ initOk
                       /\ ~Falsy(initialize_database(initOk))
         IN /\ connected' = connectOk
            /\ dbReady' = (connectOk /\ initOk)
            /\ tasks' = IF went THEN tasks + 1 ELSE tasks
            /\ pstate' =
                 [pstate EXCEPT
                    !.start_time = "now",
                    !.status =
                       IF went
                       THEN FinalStatus(verify_processing(verifyOk,
                                fileExists, malformed, file, store))
                       ELSE "error"]
    /\ UNCHANGED <<running, shutdown, finalBackup, starts, ckpt>>
    /\ UNCHANGED <<ledgerVars, callVars, apiVars, runVars, storeVars>>
    /\ UNCHANGED <<saveVars, unitVars>>

\* handle_shutdown(signum, frame), while the handlers are registered and
\* start() has not reached cleanup.
HandleShutdown ==
    /\ rpc \in {"processing", "joined"}
    /\ ~shutdown
    /\ shutdown' = TRUE
    /\ running' = FALSE
    /\ UNCHANGED <<rpc, connected, tasks, finalBackup, starts, ckpt, pstate,
                   dbReady>>
    /\ UNCHANGED <<ledgerVars, callVars, apiVars, runVars, storeVars>>
    /\ UNCHANGED <<saveVars, unitVars>>

\* start(): join() has returned; finally: cleanup(), which makes the
\* forced backup and removes the checkpoint file only "if self.running".
\* create_backup copies the ledger file and the checkpoint file through
\* json.load and catches its faults.
Cleanup ==
    /\ rpc = "joined"
    /\ rpc' = "exited"
    /\ running' = FALSE
    /\ \E bkOk, rmOk \in BOOLEAN :
         LET made == bkOk /\ ~malformed /\ ckpt.kind # "malformed" IN
         /\ finalBackup' = IF ~running THEN "none"
                           ELSE IF made THEN "made"
                           ELSE "failed"
         /\ pstate' = IF running /\ made
                      THEN [pstate EXCEPT !.last_backup_time = "now"]
                      ELSE pstate
         /\ ckpt' = IF running /\ rmOk THEN NoCheckpoint ELSE ckpt
    /\ UNCHANGED <<shutdown, connected, tasks, starts, dbReady>>
    /\ UNCHANGED <<ledgerVars, callVars, apiVars, runVars, storeVars>>
    /\ UNCHANGED <<saveVars, unitVars>>

\* SIGINT or SIGTERM while main() pages, main run as the script it is
\* (gmailextract.py 786-787): no handler is registered and the paging loop
\* reads no flag ("while not cutoff_reached").  SIGTERM ends the process;
\* SIGINT raises KeyboardInterrupt, which "except Exception" (645, 671,
\* 762, 774) does not catch.  Either way main ends where it is.
ShutdownSignal ==
    /\ pc \in {"fetch", "page", "page_error"}
    /\ ~shutdown
    /\ shutdown' = TRUE
    /\ pc' = "crashed"
    /\ UNCHANGED <<runs, query, direction, loopVars, handed, startExists,
                   startBackups, prevEmpty, logWritten, relisted>>
    /\ UNCHANGED <<rpc, running, connected, tasks, finalBackup, starts, ckpt,
                   pstate, dbReady>>
    /\ UNCHANGED <<ledgerVars, callVars, apiVars, storeVars, saveVars,
                   unitVars>>

RunStep ==
    \/ StartRun
    \/ ListMessages
    \/ PageErrorRetry
    \/ ProcessMessage
    \/ EndPage
    \/ MergeAndSave
    \/ MongoLoad

Next == RunStep

NextSync == Sync

Spec == Init /\ [][Next]_vars

\* Files a killed save can leave: the snapshot truncated by open().
InitRestart ==
    /\ InitWith(InitLedgers)
    /\ malformed \in BOOLEAN
    /\ malformed => file = <<>>
    /\ fileExists = (file # <<>> \/ malformed)
    /\ store = {}
    /\ ckpt = NoCheckpoint

\* Runs that may find the snapshot malformed.
SpecRestart == InitRestart /\ [][Next]_vars

\* The process keeps executing main() while it has a step to take.
LiveSpec == Init /\ [][Next]_vars /\ WF_vars(RunStep)

\* sync_mongodb on its own, from a ledger and a collection that runs left.
SpecSync == InitSync /\ [][NextSync]_vars

NextLoad == LoadFile

\* execute_with_backoff(func) is entered: retries = 0.
BeginBackoff ==
    /\ backoff.state # "calling"
    /\ backoff.n < MaxBackoffCalls
    /\ backoff' = [backoff EXCEPT !.state = "calling", !.n = @ + 1,
                                  !.retries = 0, !.attempts = 0,
                                  !.waits = <<>>]
    /\ UNCHANGED <<ledgerVars, callVars, apiVars, runVars, storeVars, bgVars,
                   saveVars, iteration>>

\* One turn of "while retries < self.max_retries": func() returns, raises
\* RateLimitException (sleep wait_time, retries += 1) or raises something
\* else (re-raised); the loop left without a return raises "Max retries
\* exceeded".
BackoffAttempt ==
    /\ backoff.state = "calling"
    /\ IF backoff.retries < max_retries
       THEN \E outcome \in {"return", "rate_limit", "other"} :
              LET tried == [backoff EXCEPT !.attempts = @ + 1] IN
              backoff' =
                IF outcome = "return"
                THEN [tried EXCEPT !.state = "returned"]
                ELSE IF outcome = "other"
                THEN [tried EXCEPT !.state = "raised"]
                ELSE [tried EXCEPT
                        !.waits = Append(@, wait_time(backoff.retries)),
                        !.slept = @ + wait_time(backoff.retries),
                        !.retries = @ + 1]
       ELSE backoff' = [backoff EXCEPT !.state = "exhausted"]
    /\ UNCHANGED <<ledgerVars, callVars, apiVars, runVars, storeVars, bgVars,
                   saveVars, iteration>>

NextBackoff == BeginBackoff \/ BackoffAttempt

\* Calls of execute_with_backoff, attempt by attempt.
SpecBackoff == Init /\ [][NextBackoff]_vars

NextLogged ==
    \/ StartRun
    \/ ListMessages
    \/ PageErrorRetry
    \/ ProcessMessageLogged
    \/ EndPage

\* A run from an empty or a one-message ledger, up to the end of paging.
InitLogged ==
    /\ InitWith({<<>>, <<Msg(1)>>})
    /\ fileExists = (file # <<>>)
    /\ malformed = FALSE
    /\ store = {}
    /\ ckpt = NoCheckpoint

\* The paging of one run, with the statistics each iteration logs.
SpecLogged == InitLogged /\ [][NextLogged]_vars

NextSignalled == RunStep \/ ShutdownSignal

\* Runs of main() that a shutdown signal may reach while they page.
SpecSignalled == Init /\ [][NextSignalled]_vars

NextRunner == RunnerStart \/ ProcessEmails \/ HandleShutdown \/ Cleanup

\* The Runner is started over any checkpoint file and any ledger.
InitRunner ==
    /\ InitWith(InitLedgers)
    /\ fileExists = (file # <<>>)
    /\ malformed = FALSE
    /\ store = {}
    /\ ckpt \in Checkpoints

\* The Background Runner: start(), its EmailProcessor thread and signals.
SpecRunner == InitRunner /\ [][NextRunner]_vars

NextCheckpoint == NextRunner \/ StartRun

\* The Runner over any checkpoint file, and the start of a pass.
SpecCheckpoint == InitRunner /\ [][NextCheckpoint]_vars

\* load_data of the whole file, from a ledger and a collection that runs left.
SpecLoad == InitSync /\ [][NextLoad]_vars

\* ------------------------------------------------- claims on the ledger
\* C1: a later merge-and-save on the same handler never removes from the
\* persisted snapshot an id that an earlier one saved (ids of the initial
\* ledger and of every batch saved so far stay in the file).
C1_NoSavedIdRemoved == [][IdSet(file) \subseteq IdSet(file')]_vars

\* C2: merging and saving the batch that was merged and saved just before
\* leaves the persisted ledger with the same id set and the same size.
C2_IdempotentMerge ==
    [][(calls' = calls + 1 /\ calls >= 1 /\ lastBatch' = lastBatch)
        => /\ IdSet(file') = IdSet(file)
           /\ Len(file') = Len(file)
           /\ fileExists' = fileExists]_vars

\* The same non-empty batch was passed twice in succession, to a handler
\* constructed from the file the first call wrote, and both saves succeeded.
C2_Witness ==
    /\ sameTwice /\ saveOk /\ lastBatch # <<>>
    /\ existing_emails = file
    /\ IdSet(lastBatch) \subseteq IdSet(file)
    /\ backups >= 1

\* C7: merging any batch into a ledger with pairwise distinct ids returns
\* a sequence with pairwise distinct ids.
C7_MergedIdsUnique ==
    [][(calls' = calls + 1 /\ UniqueIds(existing_emails))
        => UniqueIds(lastMerged')]_vars

\* ---------------------------------------------------- claims on the run
\* C3: after a run, no message that was listed to the run and whose
\* parsed date is before the cutoff is in the persisted ledger, whatever
\* the direction of the run's query.
C3_CutoffCorrectness == pc = "done" => oldSeen \cap IdSet(file) = {}

\* A forward run listed a pre-cutoff message, accepted others and saved.
C3_Witness ==
    /\ pc = "done" /\ oldSeen # {} /\ handed /\ saveOk
    /\ query.dir = "forward"

\* C4: with the fifth consecutive pre-cutoff message the run leaves the
\* paging loop for good: no further message of the page is processed and
\* no further page is fetched, and what was accepted before is handed to
\* the ledger merge.
C4_ConsecutiveCutoffStop ==
    /\ [](consecutive_old_messages >= MAX_OLD_MESSAGES => cutoff_reached)
    /\ [](cutoff_reached => pc \in {"merge", "mongo", "done"})
    /\ [][(cutoff_reached /\ cutoff_reached')
           => (pos' = pos /\ pagesLeft' = pagesLeft /\ retries' = retries
               /\ filtered_emails' = filtered_emails)]_vars
    /\ []((pc = "done" /\ cutoff_reached /\ filtered_emails # <<>>)
           => (handed /\ lastBatch = filtered_emails))

\* The fifth consecutive pre-cutoff message came before the page's last
\* slot, after a message had been accepted, and the run has ended.
C4_Witness ==
    /\ pc = "done" /\ cutoff_reached
    /\ consecutive_old_messages = MAX_OLD_MESSAGES
    /\ pos < MaxPageLen
    /\ filtered_emails # <<>> /\ handed

\* C5: at run start, for a ledger that holds dated messages, the query is
\* the backward gap from the cutoff to the ledger's earliest date when that
\* date is after the cutoff, else forward from just after the latest date;
\* for an empty ledger it starts at the cutoff.
C5_QueryConstruction ==
    pc = "fetch" =>
      LET st == get_statistics(existing_emails) IN
      IF existing_emails = <<>>
      THEN query.after = Day(CUTOFF_DATE) /\ query.before = -1
      ELSE IF Dated(existing_emails) = {} THEN TRUE
      ELSE IF CUTOFF_DATE < Instant(st.earliest)
      THEN /\ query.dir = "backward"
           /\ query.after = Day(CUTOFF_DATE)
           /\ query.before = Day(st.earliest.loc)
      ELSE /\ query.dir = "forward"
           /\ query.after >= Day(st.latest.loc)

\* C6: a run that accepted nothing performs no save and no backup: the
\* ledger file, its size and its date range are as when the run started.
C6_NoRegression ==
    (pc = "done" /\ filtered_emails = <<>>)
      => /\ fileExists = startExists
         /\ backups = startBackups
         /\ file = existing_emails
         /\ get_statistics(file).total_emails
              = get_statistics(existing_emails).total_emails
         /\ get_statistics(file).earliest
              = get_statistics(existing_emails).earliest
         /\ get_statistics(file).latest = get_statistics(existing_emails).latest

\* The second of two runs in succession that accepted nothing, on a ledger
\* that holds messages.
C6_Witness ==
    /\ pc = "done" /\ filtered_emails = <<>> /\ prevEmpty /\ runs >= 2
    /\ fileExists /\ file # <<>>

\* C8: every run that reaches the paging loop ends, completed or in error.
C8_RunTerminates == (pc = "fetch") ~> (pc \in {"done", "error"})

\* ----------------------------------------------- claims on sync_mongodb
\* C9 as stated: when sync_mongodb reached the store and read it, and no
\* insertion batch was counted as failed, every ledger id is in the store.
C9_NoFailedBatchSuperset ==
    (lastSync.read /\ loadStats.failed = 0)
      => IdSet(file) \subseteq StoreIds(store)

\* C9, amended: when sync_mongodb reached the store and read it, and
\* load_data recorded no error (initialize_database went through and no
\* batch was counted as failed), every ledger id is in the store after the
\* call, and a call made immediately afterwards inserts nothing.
C9_SyncPostcondition ==
    /\ []((lastSync.read /\ loadStats.failed = 0 /\ loadStats.errors = 0)
           => IdSet(file) \subseteq StoreIds(store))
    /\ [][(syncs' = syncs + 1 /\ lastSync.read /\ loadStats.failed = 0
           /\ loadStats.errors = 0)
           => (store' = store /\ passed' = {} /\ ~lastSync'.loaded)]_vars

\* A second call found nothing missing after a first one had inserted.
C9_Witness ==
    /\ syncs = 2 /\ lastSync.read /\ ~lastSync.loaded
    /\ \E d \in store : d.at = "sync"
    /\ IdSet(file) \subseteq StoreIds(store)

\* C10: sync_mongodb hands to insert_many only documents whose id is in
\* the ledger and was not in the store when it read the store's ids; with
\* nothing missing it calls no insert; every document of the store stays
\* as it is, and the ledger file and its backups are not touched.
C10_SyncFrame ==
    [][syncs' = syncs + 1
        => /\ passed' \subseteq (IdSet(file) \ StoreIds(store))
           /\ (IdSet(file) \subseteq StoreIds(store)
                 => (passed' = {} /\ ~lastSync'.loaded))
           /\ store \subseteq store'
           /\ StoreIds(store' \ store) \subseteq passed'
           /\ file' = file /\ fileExists' = fileExists
           /\ backups' = backups]_vars

\* A call inserted missing documents beside documents a run had inserted.
C10_Witness ==
    /\ syncs >= 1 /\ lastSync.loaded /\ passed # {}
    /\ \E d \in store : d.at = "run"
    /\ \E d \in store : d.at = "sync" /\ d.id \in passed

\* ------------------------------------------------- claims on load_data
\* C11: when a batch handed to insert_many holds an id the store already
\* holds, the conflict does not count the batch as failed: with no other
\* fault of insert_many failed stays 0 (it counts only the documents of
\* batches that met one), the documents that were new are counted as
\* successful and are in the store, the conflicting ones are counted as
\* duplicates, and load_data returns its stats.
C11_DuplicateResilience ==
    [][loads' = loads + 1
        => /\ loadStats'.failed <= BatchSize * faults'
           /\ loadStats'.successful
                = Cardinality(StoreIds(store') \ StoreIds(store))
           /\ (faults' = 0 /\ loadStats'.total_processed > 0)
                 => loadStats'.duplicates
                      = loadStats'.total_processed - loadStats'.successful
           /\ store \subseteq store']_vars

\* One batch held a document the store already had and one it had not.
C11_Witness ==
    /\ loads = 1 /\ Len(file) = 2
    /\ loadStats.total_processed = 2
    /\ loadStats.duplicates = 1 /\ loadStats.successful = 1
    /\ loadStats.failed = 0
    /\ \E d \in store : d.at = "run"
    /\ \E d \in store : d.at = "load"

\* --------------------------------------- claims on the Background Runner
\* C12: an invocation of the Runner that connected to the store has
\* started exactly one ingestion task by the time process_emails is over
\* (never two, and joined before start() goes on).
C12_OneIngestionTask ==
    (rpc \in {"joined", "exited"} /\ connected) => tasks = 1

\* C13: after a shutdown signal the running flag is false and, once the
\* Runner has exited, the forced final backup has been made.
C13_ShutdownOrdering ==
    /\ (shutdown => ~running)
    /\ (rpc = "exited" /\ shutdown) => finalBackup # "none"

\* ----------------------------------------------------- claims on a save
\* C14: in a save over an existing snapshot, once the snapshot file has
\* been opened for overwriting the backup is complete and holds the prior
\* content, and stays so if the process is killed during the write; with no
\* prior snapshot the save makes no backup; when the backup fails the
\* snapshot file is not opened and keeps its content.
C14_BackupBeforeOverwrite ==
    /\ (save.opened /\ save.priorExists)
         => (save.bk = "complete" /\ save.bkContent = save.prior)
    /\ (save.state # "idle" /\ ~save.priorExists) => save.bk = "none"
    /\ save.bk = "failed"
         => (~save.opened /\ ~malformed /\ file = save.prior
             /\ save.state = "raised")

\* The process was killed between open() and the end of json.dump over an
\* existing snapshot.
C14_Witness ==
    /\ save.state = "killed" /\ save.opened /\ malformed
    /\ save.priorExists /\ save.prior # <<>>
    /\ save.bk = "complete"

\* ------------------------------------------- more claims on the run
\* C15: a run that finds the snapshot file malformed ends at the load: it
\* fetches no page, leaves the file as it is, makes no backup and writes
\* nothing to the store; a run that finds no snapshot file starts from an
\* empty ledger and an empty set of known ids, and the load is no error.
C15_MalformedSnapshotFatal ==
    /\ [][(runs' = runs + 1 /\ malformed) => pc' = "crashed"]_vars
    /\ [][malformed
           => (/\ malformed' /\ file' = file /\ fileExists' = fileExists
               /\ backups' = backups /\ store' = store
               /\ pagesLeft' = MaxPages /\ ~handed'
               /\ pc' \notin {"fetch", "page", "page_error", "merge",
                              "mongo"})]_vars
    /\ [][(runs' = runs + 1 /\ ~fileExists)
           => (existing_emails' = <<>> /\ processed_ids' = {}
               /\ pc' # "crashed")]_vars

\* Two runs in a row have ended at the load of a malformed snapshot.
C15_Witness ==
    /\ runs = 2 /\ pc = "crashed" /\ malformed /\ fileExists
    /\ store = {} /\ processed_ids = {}
\* C16: a listed message without a parsed date whose sender matches is
\* accepted into the run's batch and is in the persisted ledger once the
\* run has completed, whatever the ledger held before.
C16_UndatedPersisted ==
    pc = "done"
      => \A k \in DOMAIN filtered_emails :
           filtered_emails[k].parsedDate = NoDate
             => filtered_emails[k].id \in IdSet(file)

\* C17: every run that has started and is over has written the log file.
C17_LogAlwaysWritten ==
    (runs >= 1 /\ pc \in {"done", "error", "crashed"}) => logWritten

\* C18: an id whose message has just been classified is in the known-ids
\* set.  The message was fetched, so its id was not known before: when an
\* iteration marks a message cutoff, the known-ids set gains an id.
C18_KnownAfterClassified ==
    [][consecutive_old_messages' = consecutive_old_messages + 1
        => processed_ids' # processed_ids]_vars

\* C19: at every point of a run the accumulated batch holds no id twice
\* and no id of the ledger the run started from.
C19_AtMostOnceAcceptance ==
    /\ UniqueIds(filtered_emails)
    /\ IdSet(filtered_emails) \cap IdSet(existing_emails) = {}

\* An id accepted in the run has just been listed again, in a run that
\* started from a ledger with messages and has accepted two.
C19_Witness ==
    /\ relisted /\ pc = "page"
    /\ Len(filtered_emails) = 2
    /\ existing_emails # <<>>

\* C20: the store import of a run's batch comes only after the snapshot
\* holding the whole batch was saved; a save that raised is followed by no
\* import; the import, whatever happens to it, leaves the snapshot alone.
C20_LedgerBeforeStore ==
    /\ [][(runs' = runs
           /\ (store' # store \/ passed' # passed \/ loadStats' # loadStats))
           => (pc = "mongo" /\ saveOk
               /\ IdSet(filtered_emails) \subseteq IdSet(file))]_vars
    /\ [][pc = "mongo"
           => (saveOk /\ file' = file /\ fileExists' = fileExists
               /\ backups' = backups)]_vars
    /\ []((pc = "done" /\ handed /\ ~saveOk)
           => (passed = {} /\ loadStats = ZeroStats))

\* The batch was saved and then inserted into the store.
C20_Witness ==
    /\ pc = "done" /\ handed /\ saveOk
    /\ passed = IdSet(filtered_emails) /\ passed # {}
    /\ passed \subseteq StoreIds(store)
    /\ passed \subseteq IdSet(file)

\* C21: a pass that a shutdown signal reached while paging has not ended
\* on the spot: it goes on to merge and save what it accumulated, and it
\* fetches no further page.
C21_ShutdownHonoured ==
    /\ [](shutdown => pc # "crashed")
    /\ [][(shutdown /\ pc = "fetch") => pc' # "page"]_vars

\* C22: execute_with_backoff calls func at most 5 times; the wait after
\* the k-th rate-limited attempt is 2^(k-1) seconds; a call whose 5 attempts
\* were all rate-limited ends by raising, and only such a call ends that
\* way; any other exception ends the call at the attempt that raised it,
\* with no wait and no further attempt.
C22_BackoffBudget ==
    /\ backoff.attempts <= 5
    /\ Len(backoff.waits) <= backoff.attempts
    /\ \A k \in DOMAIN backoff.waits : backoff.waits[k] = 2 ^ (k - 1)
    /\ (backoff.state = "calling" /\ Len(backoff.waits) = 5)
         => ~ENABLED (BackoffAttempt /\ backoff'.state # "exhausted")
    /\ backoff.state = "exhausted"
         => (backoff.attempts = 5 /\ Len(backoff.waits) = 5)
    /\ backoff.state \in {"returned", "raised"}
         => Len(backoff.waits) = backoff.attempts - 1

\* Five rate-limited attempts, with waits 1, 2, 4, 8, 16, ended in the
\* raise, in the second call followed; the first one waited nothing.
C22_Witness ==
    /\ backoff.state = "exhausted" /\ backoff.n = 2
    /\ backoff.waits = <<1, 2, 4, 8, 16>>
    /\ backoff.slept = 31

\* C23: an iteration whose message could not be fetched or normalised
\* leaves the run paging and the batch as it was, and is counted in the
\* error counter, not in the skipped one.
C23_FailureCountedAsError ==
    [][iteration'.met = "failed" /\ pos' = pos + 1
        => /\ pc' = "page"
           /\ filtered_emails' = filtered_emails
           /\ iteration'.stat = "errors"]_vars

\* C30: an iteration that met a known id, a failed message or a discarded
\* one leaves consecutive_old_messages as it was; a pre-cutoff message adds
\* one to it; an accepted message sets it to zero.
C30_ConsecutiveFrame ==
    [][pos' = pos + 1
        => LET met == iteration'.met
               c == consecutive_old_messages
               d == consecutive_old_messages'
           IN /\ met \in {"known", "failed", "discarded"} => d = c
              /\ met = "cutoff" => d = c + 1
              /\ met = "accepted" => d = 0
              /\ met \in {"known", "failed", "discarded", "cutoff",
                           "accepted"}]_vars

\* A discarded message has just left a counter of two where it was.
C30_Witness ==
    /\ pc = "page" /\ iteration.met = "discarded"
    /\ consecutive_old_messages = 2

\* C24: a page fetch that raises does not end the run and drops nothing
\* of the batch; the page token and the pages still to be served are as
\* they were, and the next iteration fetches again.
C24_PageFetchFailureKeepsToken ==
    [][((pc = "fetch" /\ pc' = "page_error") \/ pc = "page_error")
        => /\ pc' \in {"page_error", "fetch"}
           /\ filtered_emails' = filtered_emails
           /\ processed_ids' = processed_ids
           /\ page_token' = page_token
           /\ pagesLeft' = pagesLeft]_vars

\* The fetch of a later page raised after every attempt was rate-limited,
\* with a message already in the batch.
C24_Witness ==
    /\ pc = "page_error" /\ page_token
    /\ retries = max_retries
    /\ filtered_emails # <<>>

\* C25: a save_merged_emails that neither was killed nor failed at its
\* backup has written the merged messages: the file holds each of them
\* once, by parsedDate descending, every undated message after every dated
\* one.
C25_SortedUndatedLast ==
    (save.state \in {"saved", "raised"} /\ save.bk # "failed")
      => /\ save.state = "saved"
         /\ Len(file) = Len(save.pending)
         /\ IdSet(file) = IdSet(save.pending)
         /\ \A j, k \in DOMAIN file :
              j < k => /\ file[j].parsedDate = NoDate
                            => file[k].parsedDate = NoDate
                       /\ (file[j].parsedDate # NoDate
                           /\ file[k].parsedDate # NoDate)
                            => ~StrLess(file[j].parsedDate,
                                        file[k].parsedDate)

\* C26: in a load_data call the documents counted as failed are exactly
\* those of the batches that met a fault other than a key conflict, the
\* store holds none of them that it did not hold before, and every document
\* of every other batch, earlier or later, is in the store when the call
\* returns.
C26_BatchFailureIsolation ==
    [][loads' = loads + 1
        => /\ loadStats'.failed = Cardinality(failedIds')
           /\ (StoreIds(store') \ StoreIds(store)) \cap failedIds' = {}
           /\ (passed' \ failedIds') \subseteq StoreIds(store')]_vars

\* The first batch of two met a fault and the second was inserted.
C26_Witness ==
    /\ loads = 1 /\ Len(file) = 3
    /\ failedIds = IdSet(BatchOf(file, 1))
    /\ loadStats.failed = 2 /\ loadStats.successful = 1
    /\ IdSet(BatchOf(file, 2)) \subseteq StoreIds(store)
    /\ \E d \in store : d.at = "load"

\* C28: when load_data returns after batching, successful + duplicates +
\* failed = total_processed = the number of documents given, whatever the
\* outcome of each batch.
C28_LoadAccounting ==
    [][(loads' = loads + 1 /\ passed' # {})
        => /\ loadStats'.successful + loadStats'.duplicates
                + loadStats'.failed = loadStats'.total_processed
           /\ loadStats'.total_processed = Len(file)]_vars

\* A call of two batches: a conflict and an insert in one, a fault in
\* the other.
C28_Witness ==
    /\ loads >= 1 /\ Len(file) = 3
    /\ loadStats.total_processed = 3
    /\ loadStats.successful = 1 /\ loadStats.duplicates = 1
    /\ loadStats.failed = 1

\* C27: after load_checkpoint every counter is zero whatever the
\* checkpoint holds, status and the timestamps are the checkpoint's when it
\* could be read, and the query of a pass that starts is the one the
\* ledger's date range gives, whatever the checkpoint holds.
C27_CheckpointRestoresStatusOnly ==
    /\ [](rpc = "processing"
           => /\ \A c \in CounterNames : pstate.count[c] = 0
              /\ ckpt.kind = "saved"
                   => /\ pstate.status = ckpt.status
                      /\ pstate.last_email_date = ckpt.stamp
                      /\ pstate.last_backup_time = ckpt.stamp
                      /\ pstate.start_time = ckpt.stamp)
    /\ [][(runs' = runs + 1 /\ pc' = "fetch")
           => query' = construct_date_query(CUTOFF_DATE,
                                           get_statistics(file))]_vars

\* A checkpoint with counters above zero and a status was loaded.
C27_Witness ==
    /\ rpc = "processing"
    /\ ckpt.kind = "saved"
    /\ ckpt.count > 0 /\ ckpt.stamp = "saved"
    /\ pstate.status = ckpt.status
    /\ pstate.last_email_date = "saved"

\* C29: the status is "completed" only when the final verification found
\* the ledger file and the store with the same number of records and the
\* same ids; an invocation that got its store ready ends with the status
\* the final verification gives: "completed_with_warnings" when the two
\* differ or cannot be read.
C29_CompletedOnlyIfVerified ==
    /\ pstate.status = "completed"
         => (Len(file) = Cardinality(store) /\ IdSet(file) = StoreIds(store))
    /\ (rpc \in {"joined", "exited"} /\ dbReady
          /\ ~(fileExists /\ Len(file) = Cardinality(store)
               /\ IdSet(file) = StoreIds(store)))
         => pstate.status = "completed_with_warnings"

====
